---- MODULE Spec2Model ----
(***************************************************************************)
(* Model of pysafe.SAFE (src/pysafe/__init__.py): per SAmple Feature       *)
(* Elimination.  One SAFE object, constructed with n_points = None, is     *)
(* driven through scan / learn / get_selection / clean_data; scan is       *)
(* applied once, to the fresh object, the other calls in any order and     *)
(* any number of times.                                                    *)
(*                                                                         *)
(* Arrays are sequences (1-based): source index f is index f+1 here.       *)
(* The scanned Keras model is an input of scan; it is drawn from the       *)
(* single-output linear predictors over small nonzero integer weights.     *)
(* None is NoneArr for array-valued fields, "None" for string fields and   *)
(* 0 for n_features.  An unhandled exception ends the run (pc = "raised"), *)
(* leaving the fields as the handler had left them when it raised.         *)
(***************************************************************************)
EXTENDS Integers, Sequences, FiniteSets, TLC

MaxFeatures == 2
MaxRows == 2
MaxVal == 1
MaxLabel == 1
MaxWeight == 1
MaxQueryRows == 1

VARIABLES combinations_mode, n_features, combinations, X, arg_y, arg_model, model,
          aim, y_better, y_worst, y, algorithm, learner,
          fs_path, data, selection, cleaned, op, pc, exc

vars == <<combinations_mode, n_features, combinations, X, arg_y, arg_model, model,
          aim, y_better, y_worst, y, algorithm, learner,
          fs_path, data, selection, cleaned, op, pc, exc>>

NoneArr == <<>>

Modes == {"all", "one-by-one", "random", "genetic", "forward_selection"}

Aims == {"worst", "better"}

Algorithms == {"knn", "ann"}

Values == 0..MaxVal

Labels == 0..MaxLabel

\* a zero weight is left out: a feature the model ignores behaves as a feature
\* whose value is 0
Weights == ((-MaxWeight)..MaxWeight) \ {0}

Matrices(rows, n) == [1..rows -> [1..n -> Values]]

Models(n) == [w : [1..n -> Weights]]

----------------------------------------------------------------------------
(* numpy helpers *)

Abs(v) == IF v < 0 THEN -v ELSE v

RECURSIVE SumSeq(_)
SumSeq(s) == IF Len(s) = 0 THEN 0 ELSE s[1] + SumSeq(Tail(s))

Range(s) == {s[i] : i \in 1..Len(s)}

MinOf(s) == CHOOSE v \in Range(s) : \A u \in Range(s) : v <= u

MaxOf(s) == CHOOSE v \in Range(s) : \A u \in Range(s) : v >= u

\* list.index(v): the first position holding v
IndexOf(s, v) == CHOOSE i \in 1..Len(s) : s[i] = v /\ \A j \in 1..(i - 1) : s[j] # v

\* ndarray.argmax / argmin: first position of the extreme value
ArgMax(s) == IndexOf(s, MaxOf(s))

ArgMin(s) == IndexOf(s, MinOf(s))

Zeros(rows, n) == [r \in 1..rows |-> [f \in 1..n |-> 0]]

Ones(n) == [f \in 1..n |-> 1]

\* np.multiply of two vectors
MultiplyRow(a, b) == [f \in 1..Len(a) |-> a[f] * b[f]]

\* np.multiply of two arrays of the same shape
Multiply(a, b) == [r \in 1..Len(a) |-> MultiplyRow(a[r], b[r])]

\* np.flip with no axis: every axis is reversed
Flip(t) == [r \in 1..Len(t) |-> [c \in 1..Len(t[1]) |-> t[Len(t) + 1 - r][Len(t[1]) + 1 - c]]]

\* list(itertools.product([0, 1], repeat=n)): lexicographic, last position fastest
RECURSIVE Product(_)
Product(n) ==
    IF n = 0 THEN << <<>> >>
    ELSE LET prev == Product(n - 1)
         IN [k \in 1..(2 * Len(prev)) |-> Append(prev[(k + 1) \div 2], (k + 1) % 2)]

----------------------------------------------------------------------------
(* the scanned model *)

\* model.predict on one row
Predict(m, x) == SumSeq([f \in 1..Len(x) |-> m.w[f] * x[f]])

\* abs(model.predict(mask * row) - label)
Loss(m, row, mask, label) == Abs(Predict(m, MultiplyRow(mask, row)) - label)

----------------------------------------------------------------------------
(* SAFE._generate_combination *)

generate_combination_mut(mode, n) ==
    IF mode \in {"all", "genetic"}
    THEN [ok |-> TRUE, table |-> Flip(Product(n - 1))]
    ELSE IF mode = "one-by-one"
    THEN [ok |-> TRUE,
          table |-> [r \in 1..(n + 1) |->
                       [c \in 1..n |-> IF r = c /\ r \in 2..n THEN 0 ELSE 1]]]
    ELSE IF mode = "random"
    THEN [ok |-> FALSE, table |-> Product(n)]
    ELSE [ok |-> TRUE, table |-> NoneArr]

\* ok = FALSE: the call raised (NameError, line 182); table is what
\* self.combinations holds when the call ends
generate_combination(mode, n) ==
    IF mode \in {"all", "genetic"}
    THEN [ok |-> TRUE, table |-> Flip(Product(n))]
    ELSE IF mode = "one-by-one"
    THEN [ok |-> TRUE,
          table |-> [r \in 1..(n + 1) |->
                       [c \in 1..n |-> IF r = c /\ r \in 2..n THEN 0 ELSE 1]]]
    ELSE IF mode = "random"
    THEN [ok |-> FALSE, table |-> Product(n)]
    ELSE [ok |-> TRUE, table |-> NoneArr]

----------------------------------------------------------------------------
(* SAFE.__combination_search_forward_selection_min / _max *)

ImprovesMut(dir, current_loss, best_loss) ==
    IF dir = "min" THEN current_loss <= best_loss ELSE current_loss >= best_loss

\* current_loss < best_loss (min, line 217), current_loss > best_loss (max, line 240)
Improves(dir, current_loss, best_loss) ==
    IF dir = "min" THEN current_loss < best_loss ELSE current_loss > best_loss

\* the features i with current_combination[i] != 0, in the order of the inner loop
Remaining(best) ==
    LET Test(i) == best[i] # 0
    IN SelectSeq([i \in 1..Len(best) |-> i], Test)

\* The outer loop with `left` iterations to go.  path holds every value
\* best_combination has taken, the current one last.
RECURSIVE ForwardLoop(_, _, _, _, _, _, _)
ForwardLoop(m, row, label, dir, path, best_loss, left) ==
    IF left = 0 THEN path
    ELSE LET best == path[Len(path)]
             rem == Remaining(best)
             combos == [k \in 1..Len(rem) |-> [f \in 1..Len(best) |-> IF f = rem[k] THEN 0 ELSE best[f]]]
             losses == [k \in 1..Len(rem) |-> Loss(m, row, combos[k], label)]
             current_loss == IF dir = "min" THEN MinOf(losses) ELSE MaxOf(losses)
         IN IF Improves(dir, current_loss, best_loss)
            THEN ForwardLoop(m, row, label, dir,
                             Append(path, combos[IndexOf(losses, current_loss)]),
                             current_loss, left - 1)
            ELSE path

ForwardPath(m, row, label, dir) ==
    ForwardLoop(m, row, label, dir, <<Ones(Len(row))>>,
                Loss(m, row, Ones(Len(row)), label), Len(row))

combination_search_forward_selection_min(m, row, label) ==
    LET path == ForwardPath(m, row, label, "min") IN path[Len(path)]

combination_search_forward_selection_max(m, row, label) ==
    LET path == ForwardPath(m, row, label, "max") IN path[Len(path)]

----------------------------------------------------------------------------
(* sklearn KDTree over the scanned samples *)

SqDist(a, b) == SumSeq([f \in 1..Len(a) |-> (a[f] - b[f]) * (a[f] - b[f])])

NearestMut(tree, q) ==
    {i \in 1..Len(tree) : \A j \in 1..Len(tree) : SqDist(tree[i], q) >= SqDist(tree[j], q)}

\* KDTree.query(q, k=1): the indices the query may return.  Which of several
\* equidistant samples is returned depends on the tree layout.
Nearest(tree, q) ==
    {i \in 1..Len(tree) : \A j \in 1..Len(tree) : SqDist(tree[i], q) <= SqDist(tree[j], q)}

----------------------------------------------------------------------------
(* SAFE.__init__ *)

NoneModel == [w |-> NoneArr]

Init ==
    /\ combinations_mode \in Modes
    /\ n_features = 0
    /\ combinations = NoneArr
    /\ X = NoneArr
    /\ arg_y = NoneArr
    /\ arg_model = NoneModel
    /\ model = NoneModel
    /\ aim = "None"
    /\ y_better = NoneArr
    /\ y_worst = NoneArr
    /\ y = NoneArr
    /\ algorithm = "None"
    /\ learner = NoneArr
    /\ fs_path = NoneArr
    /\ data = NoneArr
    /\ selection = NoneArr
    /\ cleaned = NoneArr
    /\ op = "__init__"
    /\ pc = "constructed"
    /\ exc = "None"

----------------------------------------------------------------------------
(* SAFE.scan(model, X, y, aim) on the constructed object.  arg_model and    *)
(* arg_y keep the model and y arguments, fs_path every value that          *)
(* best_combination takes in the forward selection of each sample.         *)

\* losses[i, index] of lines 93-95
ScanLosses(m, Xin, yin, table) ==
    [i \in 1..Len(Xin) |-> [index \in 1..Len(table) |-> Loss(m, Xin[i], table[index], yin[i])]]

Scan(m, Xin, yin, a) ==
    LET rows == Len(Xin)
        n == Len(Xin[1])
        gen == generate_combination(combinations_mode, n)
        losses == ScanLosses(m, Xin, yin, gen.table)
    IN /\ pc = "constructed"
       /\ op' = "scan"
       /\ n_features' = n
       /\ X' = Xin
       /\ arg_y' = yin
       /\ arg_model' = m
       /\ combinations' = gen.table
       /\ UNCHANGED <<combinations_mode, y, algorithm, learner, data, selection, cleaned>>
       /\ IF ~gen.ok
          THEN \* 'random': NameError in _generate_combination, line 182
               /\ y_better' = Zeros(rows, n)
               /\ y_worst' = Zeros(rows, n)
               /\ fs_path' = NoneArr
               /\ pc' = "raised"
               /\ exc' = "NameError"
               /\ UNCHANGED <<model, aim>>
          ELSE /\ model' = m
               /\ aim' = a
               /\ IF combinations_mode = "genetic"
                  THEN \* NameError on y_train, line 80
                       /\ y_better' = Zeros(rows, n)
                       /\ y_worst' = Zeros(rows, n)
                       /\ fs_path' = NoneArr
                       /\ pc' = "raised"
                       /\ exc' = "NameError"
                  ELSE IF combinations_mode = "forward_selection"
                  THEN /\ IF a = "better"
                          THEN /\ y_better' = [i \in 1..rows |->
                                      combination_search_forward_selection_min(m, Xin[i], yin[i])]
                               /\ y_worst' = Zeros(rows, n)
                               /\ fs_path' = [i \in 1..rows |-> ForwardPath(m, Xin[i], yin[i], "min")]
                          ELSE /\ y_worst' = [i \in 1..rows |->
                                      combination_search_forward_selection_max(m, Xin[i], yin[i])]
                               /\ y_better' = Zeros(rows, n)
                               /\ fs_path' = [i \in 1..rows |-> ForwardPath(m, Xin[i], yin[i], "max")]
                       /\ pc' = "scanned"
                       /\ exc' = "None"
                  ELSE /\ y_worst' = [i \in 1..rows |-> gen.table[ArgMax(losses[i])]]
                       /\ y_better' = [i \in 1..rows |-> gen.table[ArgMin(losses[i])]]
                       /\ fs_path' = NoneArr
                       /\ pc' = "scanned"
                       /\ exc' = "None"

----------------------------------------------------------------------------
(* SAFE.learn(algorithm, aim) with learner=None *)

Learn(alg, a) ==
    LET new_aim == IF aim = "None" THEN a ELSE aim
    IN /\ pc \in {"constructed", "scanned", "learned"}
       /\ op' = "learn"
       /\ aim' = new_aim
       /\ y' = IF new_aim = "better" THEN y_better ELSE y_worst
       /\ algorithm' = alg
       /\ data' = NoneArr
       /\ selection' = NoneArr
       /\ cleaned' = NoneArr
       /\ UNCHANGED <<combinations_mode, n_features, combinations, X, arg_y, arg_model, model,
                      y_better, y_worst, fs_path>>
       /\ IF alg = "knn"
          THEN IF X = NoneArr
               THEN \* KDTree(None) is rejected by sklearn
                    /\ learner' = NoneArr
                    /\ pc' = "raised"
                    /\ exc' = "ValueError"
               ELSE /\ learner' = X
                    /\ pc' = "learned"
                    /\ exc' = "None"
          ELSE \* _ann: Sequential is not defined, line 250
               /\ learner' = NoneArr
               /\ pc' = "raised"
               /\ exc' = "NameError"

----------------------------------------------------------------------------
(* SAFE.get_selection(data) and SAFE.clean_data(data) *)

\* the arrays get_selection(d) may return; NoneArr when neither branch is taken
get_selection(d) ==
    IF algorithm = "knn"
    THEN {[r \in 1..Len(d) |-> y[ind[r]]] :
             ind \in {f \in [1..Len(d) -> 1..Len(learner)] :
                         \A r \in 1..Len(d) : f[r] \in Nearest(learner, d[r])}}
    ELSE {NoneArr}

GetSelection(d) ==
    /\ pc \in {"constructed", "scanned", "learned"}
    /\ op' = "get_selection"
    /\ data' = d
    /\ selection' \in get_selection(d)
    /\ cleaned' = NoneArr
    /\ UNCHANGED <<combinations_mode, n_features, combinations, X, arg_y, arg_model, model, aim,
                   y_better, y_worst, y, algorithm, learner, fs_path, pc, exc>>

clean_data_mut(d, sel) == Multiply(sel, sel)

\* np.multiply(data, selection), line 195
clean_data(d, sel) == Multiply(d, sel)

CleanData(d) ==
    /\ pc \in {"constructed", "scanned", "learned"}
    /\ op' = "clean_data"
    /\ data' = d
    /\ selection' \in get_selection(d)
    /\ UNCHANGED <<combinations_mode, n_features, combinations, X, arg_y, arg_model, model, aim,
                   y_better, y_worst, y, algorithm, learner, fs_path>>
    /\ IF selection' = NoneArr
       THEN \* np.multiply(data, None)
            /\ cleaned' = NoneArr
            /\ pc' = "raised"
            /\ exc' = "TypeError"
       ELSE /\ cleaned' = clean_data(d, selection')
            /\ UNCHANGED <<pc, exc>>

----------------------------------------------------------------------------

\* the data sets a caller passes: small batches of rows with the feature
\* count scan fixed, and the scanned data itself
Queries ==
    LET n == IF n_features = 0 THEN MaxFeatures ELSE n_features
    IN (UNION {Matrices(rows, n) : rows \in 1..MaxQueryRows})
           \cup (IF X = NoneArr THEN {} ELSE {X})

ScanStep ==
    /\ pc = "constructed"
    /\ \E n \in 1..MaxFeatures, rows \in 1..MaxRows :
          \E Xin \in Matrices(rows, n), yin \in [1..rows -> Labels], m \in Models(n), a \in Aims :
              Scan(m, Xin, yin, a)

LearnStep == \E alg \in Algorithms, a \in Aims : Learn(alg, a)

GetSelectionStep == \E d \in Queries : GetSelection(d)

CleanDataStep == \E d \in Queries : CleanData(d)

Next == ScanStep \/ LearnStep \/ GetSelectionStep \/ CleanDataStep

Spec == Init /\ [][Next]_vars

----------------------------------------------------------------------------
(* Properties *)

\* loss of mask on scanned sample i, for the model and labels passed to scan
SampleLoss(i, mask) == Loss(arg_model, X[i], mask, arg_y[i])

IsBinaryRow(row, n) == Len(row) = n /\ \A f \in 1..n : row[f] \in {0, 1}

ScanCalled == X # NoneArr

\* C1: in every combinations_mode other than 'forward_selection' and
\* 'genetic', after scan the mask stored in y_worst for each sample is the
\* lowest-index row of the combination table whose loss is >= the loss of
\* every row, and the mask stored in y_better is the lowest-index row whose
\* loss is <= the loss of every row.
C1_ScanStoresExtremeMasks ==
    (ScanCalled /\ combinations_mode \notin {"forward_selection", "genetic"}) =>
        \A i \in 1..Len(X) :
            /\ \E k \in 1..Len(combinations) :
                  /\ y_worst[i] = combinations[k]
                  /\ \A j \in 1..Len(combinations) :
                        SampleLoss(i, combinations[k]) >= SampleLoss(i, combinations[j])
                  /\ \A j \in 1..(k - 1) :
                        SampleLoss(i, combinations[j]) < SampleLoss(i, combinations[k])
            /\ \E k \in 1..Len(combinations) :
                  /\ y_better[i] = combinations[k]
                  /\ \A j \in 1..Len(combinations) :
                        SampleLoss(i, combinations[k]) <= SampleLoss(i, combinations[j])
                  /\ \A j \in 1..(k - 1) :
                        SampleLoss(i, combinations[j]) > SampleLoss(i, combinations[k])

\* what scan stores in the modes where it completes
C1_ExtremeMasksWhenScanned ==
    (pc \in {"scanned", "learned"} /\ combinations_mode \in {"all", "one-by-one"}) =>
        C1_ScanStoresExtremeMasks

\* C2: with combinations_mode = 'all' the combination table holds every
\* binary vector of length n_features exactly once: 2^n_features rows, all
\* entries 0 or 1, no duplicate rows, all-ones and all-zeros included.
C2_AllTableIsComplete ==
    (ScanCalled /\ combinations_mode = "all") =>
        /\ Len(combinations) = 2 ^ n_features
        /\ \A r \in 1..Len(combinations) : IsBinaryRow(combinations[r], n_features)
        /\ \A r, q \in 1..Len(combinations) : combinations[r] = combinations[q] => r = q
        /\ \A v \in [1..n_features -> {0, 1}] : \E r \in 1..Len(combinations) : combinations[r] = v
        /\ \E r \in 1..Len(combinations) : combinations[r] = Ones(n_features)
        /\ \E r \in 1..Len(combinations) : combinations[r] = [f \in 1..n_features |-> 0]

C2_Witness ==
    /\ combinations_mode = "all"
    /\ pc = "scanned"
    /\ n_features = 2
    /\ Len(combinations) = 4

\* C3: with combinations_mode = 'one-by-one' the table cancels one feature
\* at a time: for every feature there is a row where only that feature is 0,
\* and no row has more than one 0.
C3_OneByOneCancelsEveryFeature ==
    (ScanCalled /\ combinations_mode = "one-by-one") =>
        /\ \A f \in 1..n_features :
              \E r \in 1..Len(combinations) :
                  \A c \in 1..n_features : combinations[r][c] = (IF c = f THEN 0 ELSE 1)
        /\ \A r \in 1..Len(combinations) :
              Cardinality({c \in 1..n_features : combinations[r][c] = 0}) <= 1

\* what the one-by-one table does satisfy
C3_AtMostOneCancelled ==
    (ScanCalled /\ combinations_mode = "one-by-one") =>
        /\ Len(combinations) = n_features + 1
        /\ \A r \in 1..Len(combinations) :
              /\ IsBinaryRow(combinations[r], n_features)
              /\ Cardinality({c \in 1..n_features : combinations[r][c] = 0}) <= 1
        /\ \A f \in 2..n_features :
              \E r \in 1..Len(combinations) :
                  \A c \in 1..n_features : combinations[r][c] = (IF c = f THEN 0 ELSE 1)

\* the mask table selected by the aim
AimTable == IF aim = "better" THEN y_better ELSE y_worst

\* C4: after scan and learn('knn'), get_selection(data) returns for every
\* query row the mask scan recorded, in the table selected by the aim, for a
\* scanned sample no farther from the row than any other; every entry is 0 or
\* 1; a row equal to exactly one scanned sample gets that sample's mask.
C4_SelectionIsNearestMask ==
    (op = "get_selection" /\ pc = "learned") =>
        /\ Len(selection) = Len(data)
        /\ \A r \in 1..Len(data) :
              /\ IsBinaryRow(selection[r], n_features)
              /\ \E i \in 1..Len(X) :
                    /\ \A j \in 1..Len(X) : SqDist(X[i], data[r]) <= SqDist(X[j], data[r])
                    /\ selection[r] = AimTable[i]
              /\ \A i \in 1..Len(X) :
                    (X[i] = data[r] /\ \A j \in 1..Len(X) : X[j] = data[r] => j = i)
                        => selection[r] = AimTable[i]

C4_Witness ==
    /\ op = "get_selection"
    /\ pc = "learned"
    /\ Len(X) = 2
    /\ X[1] # X[2]
    /\ AimTable[1] # AimTable[2]
    /\ data[1] = X[2]
    /\ selection[1] = AimTable[2]

\* C5: clean_data(data) returns an array of the shape of data holding
\* data[r][f] where get_selection(data)[r][f] is 1 and 0 where it is 0, and
\* leaves the mask tables and the learner as they were.
C5_CleanDataMasksData ==
    [][(op' = "clean_data" /\ pc' = "learned") =>
          /\ selection' \in get_selection(data')
          /\ Len(cleaned') = Len(data')
          /\ \A r \in 1..Len(data') :
                /\ Len(cleaned'[r]) = Len(data'[r])
                /\ \A f \in 1..Len(data'[r]) :
                      /\ selection'[r][f] \in {0, 1}
                      /\ cleaned'[r][f] = (IF selection'[r][f] = 1 THEN data'[r][f] ELSE 0)
          /\ UNCHANGED <<y_better, y_worst, y, learner, X, combinations, algorithm, aim>>]_vars

C5_Witness ==
    /\ op = "clean_data"
    /\ pc = "learned"
    /\ \E r \in 1..Len(data) :
          /\ \E f \in 1..Len(data[r]) :
                selection[r][f] = 0 /\ data[r][f] # 0 /\ cleaned[r][f] = 0
          /\ \E f \in 1..Len(data[r]) :
                selection[r][f] = 1 /\ data[r][f] # 0 /\ cleaned[r][f] = data[r][f]

\* strictly better in the direction of the aim
StrictlyImproves(new_loss, old_loss) ==
    IF aim = "better" THEN new_loss < old_loss ELSE new_loss > old_loss

\* C6: in 'forward_selection' mode the mask stored for a sample is reached
\* from the all-ones mask by eliminating exactly one feature per step, every
\* step strictly improving the loss in the direction of the aim; so its loss
\* is never worse than the unmasked loss, and unless every feature is
\* eliminated no single further elimination strictly improves the loss.
C6_ForwardSelectionIsGreedyDescent ==
    (combinations_mode = "forward_selection" /\ pc \in {"scanned", "learned"}) =>
        \A i \in 1..Len(X) :
            LET path == fs_path[i]
                stored == AimTable[i]
            IN /\ Len(path) >= 1
               /\ path[1] = Ones(n_features)
               /\ stored = path[Len(path)]
               /\ \A k \in 1..(Len(path) - 1) :
                     /\ \E f \in 1..n_features :
                           /\ path[k][f] = 1
                           /\ path[k + 1][f] = 0
                           /\ \A g \in (1..n_features) \ {f} : path[k + 1][g] = path[k][g]
                     /\ StrictlyImproves(SampleLoss(i, path[k + 1]), SampleLoss(i, path[k]))
               /\ ~StrictlyImproves(SampleLoss(i, Ones(n_features)), SampleLoss(i, stored))
               /\ \A f \in 1..n_features :
                     stored[f] = 1 =>
                         ~StrictlyImproves(
                             SampleLoss(i, [g \in 1..n_features |-> IF g = f THEN 0 ELSE stored[g]]),
                             SampleLoss(i, stored))

C6_Witness ==
    /\ combinations_mode = "forward_selection"
    /\ pc = "scanned"
    /\ n_features = 2
    /\ \E i, j \in 1..Len(X) :
          /\ Len(fs_path[i]) = 3
          /\ AimTable[i] = [f \in 1..2 |-> 0]
          /\ Len(fs_path[j]) = 2
          /\ \E f \in 1..2 : AimTable[j][f] = 1

====
